---- MODULE Spec2Model ----
(***************************************************************************)
(* Model of the B-spline basis evaluator (src/src/bspline_basis.py) and of *)
(* the rational curve evaluator (src/src/nurbs_curve.py).                  *)
(*                                                                         *)
(* Numbers are exact rationals <<num, den>> in lowest terms with den > 0;  *)
(* <<0, 0>> stands for the non-finite result of a division by zero.        *)
(* Python indices are 0-based: knots[i] of the source is knots[i + 1] of a *)
(* TLA+ sequence, see At.                                                  *)
(***************************************************************************)
EXTENDS Integers, Sequences, FiniteSets, TLC

VARIABLES curve, call, out

vars == <<curve, call, out>>

\* ------------------------------------------------------------------ bounds
MaxKnot == 2        \* knot values are the integers 0..MaxKnot
MaxKnots == 5       \* longest knot vector
MaxDegree == 2      \* degrees 0..MaxDegree
UDen == 2           \* parameters are the multiples of 1/UDen
MaxCtrl == 2        \* most control points / weights
MaxBatch == 2       \* longest batch of parameters
MaxWeight == 1      \* weights are the integers -MaxWeight..MaxWeight

\* ------------------------------------------------------- exact arithmetic
Abs(n) == IF n < 0 THEN -n ELSE n

RECURSIVE Gcd(_, _)
Gcd(a, b) == IF b = 0 THEN a ELSE Gcd(b, a % b)

NaN == <<0, 0>>

Rat(n, d) ==
    IF d = 0 THEN NaN
    ELSE LET g == Gcd(Abs(n), Abs(d))
             s == IF d < 0 THEN -1 ELSE 1
         IN  <<(s * n) \div g, (s * d) \div g>>

ToFloat(n) == <<n, 1>>

RZero == ToFloat(0)
ROne == ToFloat(1)

RAdd(a, b) == Rat(a[1] * b[2] + b[1] * a[2], a[2] * b[2])
RSub(a, b) == Rat(a[1] * b[2] - b[1] * a[2], a[2] * b[2])
RMul(a, b) == Rat(a[1] * b[1], a[2] * b[2])
RDiv(a, b) == IF a[2] = 0 THEN NaN ELSE Rat(a[1] * b[2], a[2] * b[1])
RLe(a, b) == a[2] # 0 /\ b[2] # 0 /\ a[1] * b[2] <= b[1] * a[2]
RLt(a, b) == a[2] # 0 /\ b[2] # 0 /\ a[1] * b[2] < b[1] * a[2]

\* ------------------------------------------------------------------ inputs
RECURSIVE SeqsUpTo(_, _)
SeqsUpTo(S, n) ==
    IF n = 0 THEN {<<>>}
    ELSE LET shorter == SeqsUpTo(S, n - 1)
         IN  shorter \cup {Append(s, x) : s \in {t \in shorter : Len(t) = n - 1}, x \in S}

NonDecreasing(ks) == \A k \in 1..(Len(ks) - 1) : ks[k] <= ks[k + 1]

\* knot vectors as the caller writes them (integers), non-decreasing
KnotVectors == {ks \in SeqsUpTo(0..MaxKnot, MaxKnots) : Len(ks) >= 2 /\ NonDecreasing(ks)}

Degrees == 0..MaxDegree

\* parameters inside the knot range and half a step outside it on both sides
Params == {Rat(k, UDen) : k \in (-1)..(MaxKnot * UDen + 1)}

\* np.asarray(knots, dtype=float)
AsFloats(xs) == [k \in 1..Len(xs) |-> ToFloat(xs[k])]

\* knots[i] of the source
At(s, i) == s[i + 1]

\* --------------------------------------------------------- bspline_basis.py
\* The outcome of one call of basis_function: its value, whether it raised
\* IndexError, the knot indices it read (in range or not), the denominators
\* it divided by and the recursive calls it made, each call named by the
\* frame that made it and the term it belongs to: <<i, p, term>>.
Frame(v, e, rd, dv, cl) ==
    [val |-> v, err |-> e, reads |-> rd, divs |-> dv, calls |-> cl]

InRange(knots, i) == 0 <= i /\ i < Len(knots)

\* (mutant) every span closed on the right
IndicatorClosed(i, u, knots) ==
    IF ~InRange(knots, i) THEN Frame(NaN, TRUE, {i}, {}, {})
    ELSE IF ~InRange(knots, i + 1) THEN Frame(NaN, TRUE, {i, i + 1}, {}, {})
    ELSE Frame(IF RLe(At(knots, i), u) /\ RLe(u, At(knots, i + 1))
               THEN ROne ELSE RZero, FALSE, {i, i + 1}, {}, {})

\* the degree-0 case, lines 38-42
Indicator(i, u, knots) ==
    IF ~InRange(knots, i) THEN Frame(NaN, TRUE, {i}, {}, {})
    ELSE IF ~InRange(knots, i + 1) THEN Frame(NaN, TRUE, {i, i + 1}, {}, {})
    ELSE IF i = Len(knots) - 2
         THEN Frame(IF RLe(At(knots, i), u) /\ RLe(u, At(knots, i + 1))
                    THEN ROne ELSE RZero, FALSE, {i, i + 1}, {}, {})
         ELSE Frame(IF RLe(At(knots, i), u) /\ RLt(u, At(knots, i + 1))
                    THEN ROne ELSE RZero, FALSE, {i, i + 1}, {}, {})

\* (mutant) the blending factor is dropped: result += basis_function(...)
AddTermUnscaled(acc, i, p, t, denom, term, sub) ==
    IF sub.err
    THEN Frame(NaN, TRUE, acc.reads \cup sub.reads, acc.divs \cup {denom} \cup sub.divs,
               acc.calls \cup {<<i, p, t>>} \cup sub.calls)
    ELSE Frame(RAdd(acc.val, sub.val), FALSE, acc.reads \cup sub.reads,
               acc.divs \cup {denom} \cup sub.divs,
               acc.calls \cup {<<i, p, t>>} \cup sub.calls)

\* result += term * basis_function(j, p - 1, u, knots), made by frame <<i, p>>
AddTerm(acc, i, p, t, denom, term, sub) ==
    IF sub.err
    THEN Frame(NaN, TRUE, acc.reads \cup sub.reads, acc.divs \cup {denom} \cup sub.divs,
               acc.calls \cup {<<i, p, t>>} \cup sub.calls)
    ELSE Frame(RAdd(acc.val, RMul(term, sub.val)), FALSE, acc.reads \cup sub.reads,
               acc.divs \cup {denom} \cup sub.divs,
               acc.calls \cup {<<i, p, t>>} \cup sub.calls)

\* (mutant) the guard is dropped
NonZeroUnguarded(denom) == TRUE

\* if denom1 != 0: / if denom2 != 0:
NonZero(denom) == denom # RZero

RECURSIVE basis_function(_, _, _, _)
basis_function(i, p, u, knots) ==
    IF p = 0 THEN Indicator(i, u, knots)
    ELSE IF ~InRange(knots, i + p) THEN Frame(NaN, TRUE, {i + p}, {}, {})
    ELSE IF ~InRange(knots, i) THEN Frame(NaN, TRUE, {i + p, i}, {}, {})
    ELSE
        LET result == Frame(RZero, FALSE, {i + p, i}, {}, {})
            denom1 == RSub(At(knots, i + p), At(knots, i))
            r1 == IF NonZero(denom1)
                  THEN AddTerm(result, i, p, 1, denom1,
                               RDiv(RSub(u, At(knots, i)), denom1),
                               basis_function(i, p - 1, u, knots))
                  ELSE result
        IN  IF r1.err THEN r1
            ELSE IF ~InRange(knots, i + p + 1)
                 THEN Frame(NaN, TRUE, r1.reads \cup {i + p + 1}, r1.divs, r1.calls)
            ELSE
                LET denom2 == RSub(At(knots, i + p + 1), At(knots, i + 1))
                    r2 == Frame(r1.val, FALSE, r1.reads \cup {i + p + 1, i + 1},
                                r1.divs, r1.calls)
                IN  IF NonZero(denom2)
                    THEN AddTerm(r2, i, p, 2, denom2,
                                 RDiv(RSub(At(knots, i + p + 1), u), denom2),
                                 basis_function(i + 1, p - 1, u, knots))
                    ELSE r2

\* for i in range(n): basis_vals.append(basis_function(i, p, u, knots))
basis_functions_all(p, u, knots) ==
    LET n == Len(knots) - p - 1
    IN  [k \in 1..(IF n > 0 THEN n ELSE 0) |-> basis_function(k - 1, p, u, knots)]

\* ----------------------------------------------------------- nurbs_curve.py
Dim == 2            \* control_points.shape[1] of the curves modelled

DimensionMismatch == "ValueError: Number of control points must match number of weights"
SingularEvaluation == "ValueError: Denominator is zero in NURBS evaluation"

NoCurve == [kind |-> "none"]
NoCall == [op |-> "none"]
NoOut == [kind |-> "none"]

\* np.asarray(control_points, dtype=float)
AsPoints(ps) == [k \in 1..Len(ps) |-> AsFloats(ps[k])]

\* (mutant) only a shortage of weights is reported
CountsDifferOneWay(n_control, n_weights) == n_control > n_weights

\* if n_control != n_weights
CountsDiffer(n_control, n_weights) == n_control # n_weights

\* NURBSCurve(control_points, weights, knots, degree): the object built, or
\* the error raised
NURBSCurve_init(control_points, weights, knots, degree) ==
    IF CountsDiffer(Len(control_points), Len(weights))
    THEN [kind |-> "ValueError", msg |-> DimensionMismatch]
    ELSE [kind |-> "curve",
          control_points |-> AsPoints(control_points),
          weights |-> AsFloats(weights),
          knots |-> AsFloats(knots),
          degree |-> degree]

VZero == [d \in 1..Dim |-> RZero]
VAdd(a, b) == [d \in 1..Dim |-> RAdd(a[d], b[d])]
VScale(r, a) == [d \in 1..Dim |-> RMul(r, a[d])]
VDivide(a, r) == [d \in 1..Dim |-> RDiv(a[d], r)]

\* basis_val = basis_vals[i] if i < len(basis_vals) else 0.0
BasisVal(basis_vals, i) == IF i < Len(basis_vals) THEN At(basis_vals, i).val ELSE RZero

\* the sums the inner loop has accumulated after its first k iterations
RECURSIVE WeightedSum(_, _, _)
WeightedSum(self, basis_vals, k) ==
    IF k = 0 THEN [numerator |-> VZero, denominator |-> RZero]
    ELSE LET acc == WeightedSum(self, basis_vals, k - 1)
             point == At(self.control_points, k - 1)
             weight == At(self.weights, k - 1)
             basis_val == BasisVal(basis_vals, k - 1)
         IN  [numerator |-> VAdd(acc.numerator, VScale(RMul(basis_val, weight), point)),
              denominator |-> RAdd(acc.denominator, RMul(basis_val, weight))]

\* (mutant) the check is dropped and the division goes ahead
SingularIgnored(denominator) == FALSE

\* if denominator == 0: raise ValueError(...)
Singular(denominator) == denominator = RZero

\* one iteration of "for u_val in u": the point appended, or the error raised
EvaluateAt(self, u_val) ==
    LET basis_vals == basis_functions_all(self.degree, u_val, self.knots)
        sums == WeightedSum(self, basis_vals, Len(self.control_points))
    IN  IF Singular(sums.denominator)
        THEN [kind |-> "ValueError", msg |-> SingularEvaluation]
        ELSE [kind |-> "point", point |-> VDivide(sums.numerator, sums.denominator)]

\* a scalar parameter (u.ndim == 0) and a sequence of parameters
Scalar(r) == [ndim |-> 0, v |-> r]
Batch(rs) == [ndim |-> 1, v |-> rs]

\* NURBSCurve.evaluate(u)
evaluate(self, u) ==
    LET single_value == u.ndim = 0
        us == IF single_value THEN <<u.v>> ELSE u.v
        results == [j \in 1..Len(us) |-> EvaluateAt(self, us[j])]
    IN  IF \E j \in 1..Len(us) : results[j].kind = "ValueError"
        THEN [kind |-> "ValueError", msg |-> SingularEvaluation]
        ELSE IF single_value THEN results[1]
        ELSE [kind |-> "points", points |-> [j \in 1..Len(us) |-> results[j].point]]

\* NURBSCurve.evaluate_grid(u_values)
evaluate_grid(self, u_values) == evaluate(self, Batch(u_values))

\* ------------------------------------------------------------- the inputs
\* the control points of the example of the spec, and the lists made of them
Points == {<<0, 0>>, <<1, 1>>, <<2, 0>>}
ExamplePoints == <<(<<0, 0>>), (<<1, 1>>), (<<2, 0>>)>>
CtrlLists == SeqsUpTo(Points, MaxCtrl)
WeightLists == SeqsUpTo((0 - MaxWeight)..MaxWeight, MaxCtrl)

Reverse(xs) == [k \in 1..Len(xs) |-> xs[Len(xs) + 1 - k]]

\* the constructor takes any knot vector: the sorted ones and their reversals
AnyKnots == KnotVectors \cup {Reverse(ks) : ks \in KnotVectors}

Batches == SeqsUpTo(Params, MaxBatch)
Scalars == {Scalar(u) : u \in Params}
BatchInputs == {Batch(us) : us \in Batches}

\* ------------------------------------------------------------ the callers
\* A sequential caller: one call at a time, whose arguments and outcome are
\* kept until the caller takes them (Return).
Init ==
    /\ curve = NoCurve
    /\ call = NoCall
    /\ out = NoOut

Return ==
    /\ call # NoCall
    /\ call' = NoCall
    /\ out' = NoOut
    /\ UNCHANGED curve

\* BSplineBasis.basis_function(i, p, u, knots), called directly
BasisFunction ==
    /\ call = NoCall
    /\ \E i \in 0..(MaxKnots - 1), p \in Degrees, u \in Params, knots \in KnotVectors :
          /\ call' = [op |-> "basis_function", i |-> i, p |-> p, u |-> u, knots |-> knots]
          /\ out' = LET f == basis_function(i, p, u, AsFloats(knots))
                    IN  [kind |-> IF f.err THEN "IndexError" ELSE "value", frame |-> f]
          /\ UNCHANGED curve

\* BSplineBasis.basis_functions_all(p, u, knots), called directly
BasisFunctionsAll ==
    /\ call = NoCall
    /\ \E p \in Degrees, u \in Params, knots \in KnotVectors :
          /\ call' = [op |-> "basis_functions_all", p |-> p, u |-> u, knots |-> knots]
          /\ out' = [kind |-> "values", frames |-> basis_functions_all(p, u, AsFloats(knots))]
          /\ UNCHANGED curve

NextBasis ==
    \/ BasisFunction
    \/ BasisFunctionsAll
    \/ Return

SpecBasis == Init /\ [][NextBasis]_vars

\* NURBSCurve(control_points, weights, knots, degree)
Construct ==
    /\ call = NoCall
    /\ curve = NoCurve
    /\ \E control_points \in CtrlLists, weights \in WeightLists,
          knots \in AnyKnots, degree \in Degrees :
          /\ call' = [op |-> "__init__", control_points |-> control_points,
                      weights |-> weights, knots |-> knots, degree |-> degree]
          /\ LET made == NURBSCurve_init(control_points, weights, knots, degree)
             IN  IF made.kind = "curve"
                 THEN curve' = made /\ out' = [kind |-> "None"]
                 ELSE curve' = NoCurve /\ out' = made

\* curve.evaluate(u)
Evaluate(inputs) ==
    /\ call = NoCall
    /\ curve # NoCurve
    /\ \E u \in inputs :
          /\ call' = [op |-> "evaluate", u |-> u]
          /\ out' = evaluate(curve, u)
          /\ UNCHANGED curve

\* curve.evaluate_grid(u_values)
EvaluateGrid ==
    /\ call = NoCall
    /\ curve # NoCurve
    /\ \E u_values \in Batches :
          /\ call' = [op |-> "evaluate_grid", u |-> Batch(u_values)]
          /\ out' = evaluate_grid(curve, u_values)
          /\ UNCHANGED curve

Next ==
    \/ Construct
    \/ Evaluate(Scalars)
    \/ Return

Spec == Init /\ [][Next]_vars

\* Curves as the data model describes them: the example's control points (any
\* run of them), unit weights, a non-decreasing knot vector and
\* len(knots) == len(control_points) + degree + 1.
Slices(xs) == {SubSeq(xs, a, b) : a \in 1..Len(xs), b \in 1..Len(xs)} \ {<<>>}

ValidCurves ==
    {NURBSCurve_init(cp, [k \in 1..Len(cp) |-> 1], ks, d) :
        <<cp, ks, d>> \in {t \in Slices(ExamplePoints) \X KnotVectors \X Degrees :
                              Len(t[2]) = Len(t[1]) + t[3] + 1}}

InitValid ==
    /\ curve \in ValidCurves
    /\ call = NoCall
    /\ out = NoOut

NextValid ==
    \/ Evaluate(Scalars)
    \/ Evaluate(BatchInputs)
    \/ EvaluateGrid
    \/ Return

SpecValid == InitValid /\ [][NextValid]_vars

\* ------------------------------------------------- properties of the basis
AllCall == call.op = "basis_functions_all"
OneCall == call.op = "basis_function"

\* the basis functions the last basis_functions_all returned
NumBasis == Len(out.frames)
N(j) == At(out.frames, j).val

RECURSIVE SumTo(_)
SumTo(k) == IF k = 0 THEN RZero ELSE RAdd(SumTo(k - 1), N(k - 1))

LastKnot(knots) == ToFloat(knots[Len(knots)])
HasRepeatedKnot(knots) == \E k \in 1..(Len(knots) - 1) : knots[k] = knots[k + 1]
ClampedEnd(knots, p) ==
    /\ Len(knots) >= p + 1
    /\ \A k \in (Len(knots) - p)..Len(knots) : knots[k] = knots[Len(knots)]

\* C2 (as claimed): endpoint inclusion -- for a non-decreasing knot vector and
\* a degree p with at least one basis function, basis_functions_all at the
\* maximum knot value returns a vector with a non-zero entry.
C2_EndpointInclusion ==
    (AllCall /\ NumBasis >= 1 /\ call.u = LastKnot(call.knots))
        => \E j \in 0..(NumBasis - 1) : N(j) # RZero

\* u lies in the closed domain [knots[p], knots[len(knots) - p - 1]]
InDomain(u, p, knots) ==
    /\ Len(knots) >= p + 1
    /\ RLe(At(knots, p), u)
    /\ RLe(u, At(knots, Len(knots) - p - 1))

\* C3 (as claimed): partition of unity -- for a non-decreasing knot vector, a
\* degree p and any u of the closed domain [knots[p], knots[len(knots)-p-1]],
\* the entries of basis_functions_all(p, u, knots) sum to 1.
C3_PartitionOfUnity ==
    (AllCall /\ NumBasis >= 1 /\ InDomain(call.u, call.p, AsFloats(call.knots)))
        => SumTo(NumBasis) = ROne

\* u lies in knot span i: [knots[i], knots[i+1]), closed for the last span
InSpan(u, i, knots) ==
    /\ RLe(ToFloat(At(knots, i)), u)
    /\ IF i = Len(knots) - 2
       THEN RLe(u, ToFloat(At(knots, i + 1)))
       ELSE RLt(u, ToFloat(At(knots, i + 1)))

\* C8: the degree-0 basis functions are an exclusive indicator of the knot
\* spans -- for u in span i, N_{i,0}(u) = 1 and N_{j,0}(u) = 0 for every other
\* j, so at most one degree-0 basis function is non-zero at any u.
C8_DegreeZeroIndicator ==
    (AllCall /\ call.p = 0) =>
        /\ \A i \in 0..(NumBasis - 1) :
              InSpan(call.u, i, call.knots) =>
                  /\ N(i) = ROne
                  /\ \A j \in 0..(NumBasis - 1) : j # i => N(j) = RZero
        /\ Cardinality({j \in 0..(NumBasis - 1) : N(j) # RZero}) <= 1

\* C8 witness: u sits on a repeated knot, where an empty span [k, k) is
\* followed by the span that holds u, and that span's function is 1
C8_Witness ==
    /\ AllCall /\ call.p = 0
    /\ \E i \in 1..(NumBasis - 2) :
                /\ call.knots[i] = call.knots[i + 1]
                /\ call.u = ToFloat(call.knots[i])
                /\ \E j \in i..(NumBasis - 1) : N(j) = ROne

\* C9: every basis value lies in [0,1] -- for a non-decreasing knot vector, a
\* degree p, an index i in 0..len(knots)-p-2 and any u, inside or outside the
\* knot range, 0 <= basis_function(i, p, u, knots) <= 1.
C9_ValueInUnitInterval ==
    (OneCall /\ call.i <= Len(call.knots) - call.p - 2) =>
        /\ out.kind = "value"
        /\ RLe(RZero, out.frame.val)
        /\ RLe(out.frame.val, ROne)

\* C9 witness: a basis function of degree >= 1 takes a value strictly
\* between 0 and 1
C9_Witness ==
    /\ OneCall /\ call.p >= 1 /\ call.i <= Len(call.knots) - call.p - 2
    /\ out.kind = "value"
    /\ RLt(RZero, out.frame.val) /\ RLt(out.frame.val, ROne)

\* the denominator of term t of frame <<i, p>>
Denominator(knots, i, p, t) ==
    IF t = 1 THEN At(knots, i + p) - At(knots, i)
    ELSE At(knots, i + p + 1) - At(knots, i + 1)

\* C10: the degenerate-denominator guard -- in every call basis_functions_all
\* makes on a non-decreasing knot vector, a term whose denominator is zero is
\* skipped at every depth of the recursion (its recursive call is not made and
\* it adds nothing), nothing is divided by zero and only the knot indices
\* 0..len(knots)-1 are read.
C10_DegenerateGuard ==
    AllCall =>
        \A k \in 0..(NumBasis - 1) :
            LET f == At(out.frames, k)
            IN  /\ ~f.err
                /\ RZero \notin f.divs
                /\ f.reads \subseteq 0..(Len(call.knots) - 1)
                /\ \A c \in f.calls : Denominator(call.knots, c[1], c[2], c[3]) # 0
                /\ (/\ call.p >= 1
                    /\ Denominator(call.knots, k, call.p, 1) = 0
                    /\ Denominator(call.knots, k, call.p, 2) = 0) => f.val = RZero

\* C10 witness: a frame of degree >= 1 over a repeated knot skipped one term
\* and recursed into the other
C10_Witness ==
    /\ AllCall /\ call.p >= 1
    /\ \E k \in 0..(NumBasis - 1) :
                /\ Denominator(call.knots, k, call.p, 1) = 0
                /\ <<k, call.p, 1>> \notin At(out.frames, k).calls
                /\ <<k, call.p, 2>> \in At(out.frames, k).calls
                /\ At(out.frames, k).val # RZero

\* ------------------------------------------------- properties of the curve
ScalarEvaluate == call.op = "evaluate" /\ call.u.ndim = 0
BatchEvaluate == call.op \in {"evaluate", "evaluate_grid"} /\ call.u.ndim = 1

PointOut(pt) == [kind |-> "point", point |-> AsFloats(pt)]
SingularOut == [kind |-> "ValueError", msg |-> SingularEvaluation]

\* the degree-1 curve of the spec's example
ExampleCurve == NURBSCurve_init(ExamplePoints, <<1, 1, 1>>, <<0, 0, 1, 2, 2>>, 1)

\* C1 (as claimed): the example curve evaluates to [0,0] at u=0, to [1,1] at
\* u=1 and to [2,0] at u=2.
C1_ExampleCurve ==
    (curve = ExampleCurve /\ ScalarEvaluate) =>
        /\ call.u.v = ToFloat(0) => out = PointOut(<<0, 0>>)
        /\ call.u.v = ToFloat(1) => out = PointOut(<<1, 1>>)
        /\ call.u.v = ToFloat(2) => out = PointOut(<<2, 0>>)

\* C4 (as claimed): a batch of k parameters of the curve's domain evaluates,
\* through evaluate and through evaluate_grid, to exactly k points, the j-th
\* being the point evaluate returns for the scalar u_j.
C4_BatchAgreesWithScalar ==
    (/\ BatchEvaluate
     /\ \A j \in 1..Len(call.u.v) : InDomain(call.u.v[j], curve.degree, curve.knots)) =>
        /\ out.kind = "points"
        /\ Len(out.points) = Len(call.u.v)
        /\ \A j \in 1..Len(call.u.v) :
              evaluate(curve, Scalar(call.u.v[j])) = [kind |-> "point", point |-> out.points[j]]

\* the rational denominator: the sum over i of basis_vals[i] * weights[i]
RECURSIVE DenominatorSum(_, _, _)
DenominatorSum(basis_vals, weights, k) ==
    IF k = 0 THEN RZero
    ELSE RAdd(DenominatorSum(basis_vals, weights, k - 1),
              IF k <= Len(basis_vals) THEN RMul(basis_vals[k].val, weights[k]) ELSE RZero)

LastBasisVals == basis_functions_all(curve.degree, call.u.v, curve.knots)
AllWeightsZero == \A k \in 1..Len(curve.weights) : curve.weights[k] = RZero
OutsideEverySupport == \A k \in 1..Len(LastBasisVals) : LastBasisVals[k].val = RZero

\* C5: a singular evaluation is an error, never a default point -- whenever
\* the rational denominator is exactly zero, evaluate(u) fails with
\* SingularEvaluation and returns no point; so does a curve whose weights are
\* all 0, at every parameter, and a parameter outside every basis support.
C5_SingularIsError ==
    ScalarEvaluate =>
        /\ DenominatorSum(LastBasisVals, curve.weights, Len(curve.weights)) = RZero
              => out = SingularOut
        /\ AllWeightsZero => out = SingularOut
        /\ OutsideEverySupport => out = SingularOut

\* C5 witness: the denominator vanishes although a weight and a basis value
\* are non-zero, and the evaluation failed
C5_Witness ==
    /\ ScalarEvaluate
    /\ ~AllWeightsZero /\ ~OutsideEverySupport
    /\ DenominatorSum(LastBasisVals, curve.weights, Len(curve.weights)) = RZero
    /\ out = SingularOut

\* C6: construction fails with DimensionMismatch if and only if the number of
\* weights differs from the number of control points; with equal counts it
\* succeeds and stores its arguments, whatever the knots, the degree and the
\* signs of the weights.
C6_ConstructionChecksCountsOnly ==
    call.op = "__init__" =>
        /\ (out = [kind |-> "ValueError", msg |-> DimensionMismatch])
              <=> (Len(call.control_points) # Len(call.weights))
        /\ Len(call.control_points) = Len(call.weights) =>
              /\ out.kind = "None"
              /\ curve.kind = "curve"
              /\ curve.control_points = AsPoints(call.control_points)
              /\ curve.weights = AsFloats(call.weights)
              /\ curve.knots = AsFloats(call.knots)
              /\ curve.degree = call.degree
        /\ Len(call.control_points) # Len(call.weights) => curve = NoCurve

\* C6 witness: a curve was built from decreasing knots whose number does not
\* fit the degree, and from a negative weight
C6_Witness ==
    /\ call.op = "__init__"
    /\ curve.kind = "curve"
    /\ ~NonDecreasing(call.knots)
    /\ Len(call.knots) # Len(call.control_points) + call.degree + 1
    /\ \E k \in 1..Len(call.weights) : call.weights[k] < 0

\* C7 (as claimed): a curve with one control point P of weight 1 and
\* degree + 2 knots evaluates to P at every u of its domain.
C7_SingleControlPoint ==
    (/\ ScalarEvaluate
     /\ Len(curve.control_points) = 1
     /\ curve.weights = <<ROne>>
     /\ Len(curve.knots) = curve.degree + 2
     /\ InDomain(call.u.v, curve.degree, curve.knots)) =>
        out = [kind |-> "point", point |-> curve.control_points[1]]

====
